---- MODULE Spec2Model ----
(***************************************************************************)
(* A model of server.js: the five route handlers of the transaction API,   *)
(* the identifier check they share, the coercions they apply to the        *)
(* request body, and the persistence client (prisma.transaction) they      *)
(* await.                                                                  *)
(*                                                                         *)
(* Strings are sequences of one-character strings.  A JavaScript value is  *)
(* a record tagged by t: "undefined", "string", "number", "NaN", "Date",   *)
(* "InvalidDate", "null".  Numbers are fixed point, in hundredths; time    *)
(* values are in days since 1970-01-01 (every date of the model is a UTC   *)
(* midnight).                                                              *)
(***************************************************************************)
EXTENDS Integers, Sequences, FiniteSets, TLC

VARIABLES
    db,      \* the documents of the transaction collection (a set of records)
    tasks    \* tasks[s]: the request being handled in slot s

vars == <<db, tasks>>

\* The number of requests that may be in flight at once.
MaxInFlight == 2

Slots == 1..MaxInFlight

(***************************************************************************)
(* JavaScript values                                                       *)
(***************************************************************************)
Undefined == [t |-> "undefined"]
Null == [t |-> "null"]
NaN == [t |-> "NaN"]
InvalidDate == [t |-> "InvalidDate"]
Str(chars) == [t |-> "string", s |-> chars]
Num(hundredths) == [t |-> "number", n |-> hundredths]
Date(days) == [t |-> "Date", time |-> days]

DigitChars == <<"0", "1", "2", "3", "4", "5", "6", "7", "8", "9">>

IsDigit(c) == \E i \in 1..10 : DigitChars[i] = c

DigitVal(c) == (CHOOSE i \in 1..10 : DigitChars[i] = c) - 1

HexLetters == {"a", "b", "c", "d", "e", "f", "A", "B", "C", "D", "E", "F"}

\* checkForHexRegExp of the ObjectId class: /^[0-9a-fA-F]{24}$/
IsHexChar(c) == IsDigit(c) \/ c \in HexLetters

\* !v for the values a JSON body can hold
Falsy(v) ==
    \/ v.t \in {"undefined", "null", "NaN"}
    \/ v.t = "string" /\ Len(v.s) = 0
    \/ v.t = "number" /\ v.n = 0

\* a check of the length alone
LengthOnlyObjectId(id) ==
    CASE id.t = "string" -> Len(id.s) = 24
      [] id.t = "number" -> TRUE
      [] OTHER -> FALSE

(***************************************************************************)
(* ObjectId.isValid, as isValidObjectId calls it: null and undefined are   *)
(* refused, a number is accepted (an ObjectId is generated from it), a     *)
(* string must be 24 hexadecimal characters, anything else makes the       *)
(* constructor throw, which isValid turns into false.                      *)
(***************************************************************************)
isValidObjectId(id) ==
    CASE id.t = "string" ->
             /\ Len(id.s) = 24
             /\ \A i \in 1..Len(id.s) : IsHexChar(id.s[i])
      [] id.t = "number" -> TRUE
      [] OTHER -> FALSE

(***************************************************************************)
(* parseFloat: the string form of the argument, leading blanks skipped, an *)
(* optional sign, then the longest prefix digits[.digits]; NaN when that   *)
(* prefix holds no digit.  What follows the prefix is ignored.             *)
(***************************************************************************)
RECURSIVE SkipBlanks(_, _)
SkipBlanks(s, i) ==
    IF i <= Len(s) /\ s[i] = " " THEN SkipBlanks(s, i + 1) ELSE i

\* the first index at or after i that holds no digit
RECURSIVE DigitsEnd(_, _)
DigitsEnd(s, i) ==
    IF i <= Len(s) /\ IsDigit(s[i]) THEN DigitsEnd(s, i + 1) ELSE i

\* the number written by the digits s[i..j-1]
RECURSIVE DigitsValue(_, _, _)
DigitsValue(s, i, j) ==
    IF j <= i THEN 0 ELSE DigitsValue(s, i, j - 1) * 10 + DigitVal(s[j - 1])

\* the fraction digits s[i..j-1] in hundredths (further digits are below the
\* model's resolution)
FractionValue(s, i, j) ==
    (IF i < j THEN DigitVal(s[i]) * 10 ELSE 0)
    + (IF i + 1 < j THEN DigitVal(s[i + 1]) ELSE 0)

ParseFloatChars(s) ==
    LET b == SkipBlanks(s, 1)
        neg == b <= Len(s) /\ s[b] = "-"
        signed == b <= Len(s) /\ s[b] \in {"-", "+"}
        i0 == IF signed THEN b + 1 ELSE b
        i1 == DigitsEnd(s, i0)
        dot == i1 <= Len(s) /\ s[i1] = "."
        f0 == IF dot THEN i1 + 1 ELSE i1
        f1 == IF dot THEN DigitsEnd(s, f0) ELSE i1
        mag == DigitsValue(s, i0, i1) * 100 + FractionValue(s, f0, f1)
    IN  IF i1 = i0 /\ f1 = f0
        THEN NaN
        ELSE Num(IF neg THEN 0 - mag ELSE mag)

\* a parse that drops the fraction (parseInt in place of parseFloat)
IntegerPartOnly(v) ==
    CASE v.t = "number" -> Num((v.n \div 100) * 100)
      [] v.t = "string" ->
             LET r == ParseFloatChars(v.s)
             IN  IF r.t = "number" THEN Num((r.n \div 100) * 100) ELSE r
      [] OTHER -> NaN

parseFloat(v) ==
    CASE v.t = "number" -> v
      [] v.t = "string" -> ParseFloatChars(v.s)
      [] OTHER -> NaN

(***************************************************************************)
(* new Date(v): a number is the time value itself (counted in days, the    *)
(* model's unit of time); a string goes through                            *)
(* Date.parse, of which the model knows the date-only ISO form YYYY-MM-DD  *)
(* (month 1..12, day 1..31, a day past the month's end carried into the    *)
(* next month, as the engine's MakeDay does); undefined gives an invalid   *)
(* date.                                                                   *)
(***************************************************************************)
\* days from 1970-01-01 to the civil date y-m-d
DaysFromCivil(y, m, d) ==
    LET yy == IF m <= 2 THEN y - 1 ELSE y
        era == yy \div 400
        yoe == yy - era * 400
        mp == IF m > 2 THEN m - 3 ELSE m + 9
        doy == (153 * mp + 2) \div 5 + d - 1
        doe == yoe * 365 + yoe \div 4 - yoe \div 100 + doy
    IN  era * 146097 + doe - 719468

\* the civil date <<y, m, d>> of a day number
CivilFromDays(z) ==
    LET zz == z + 719468
        era == zz \div 146097
        doe == zz - era * 146097
        yoe == (doe - doe \div 1460 + doe \div 36524 - doe \div 146096) \div 365
        doy == doe - (365 * yoe + yoe \div 4 - yoe \div 100)
        mp == (5 * doy + 2) \div 153
        d == doy - (153 * mp + 2) \div 5 + 1
        m == IF mp < 10 THEN mp + 3 ELSE mp - 9
        y == yoe + era * 400
    IN  <<IF m <= 2 THEN y + 1 ELSE y, m, d>>

IsIsoDateShape(s) ==
    /\ Len(s) = 10
    /\ \A i \in {1, 2, 3, 4, 6, 7, 9, 10} : IsDigit(s[i])
    /\ s[5] = "-"
    /\ s[8] = "-"

DateParse(s) ==
    IF ~IsIsoDateShape(s)
    THEN InvalidDate
    ELSE LET y == DigitsValue(s, 1, 5)
             m == DigitsValue(s, 6, 8)
             d == DigitsValue(s, 9, 11)
         IN  IF m \in 1..12 /\ d \in 1..31
             THEN Date(DaysFromCivil(y, m, d))
             ELSE InvalidDate

NewDate(v) ==
    CASE v.t = "number" -> Date(v.n \div 100)
      [] v.t = "string" -> DateParse(v.s)
      [] OTHER -> InvalidDate

\* n written with `width` digits
RECURSIVE Digits(_, _)
Digits(n, width) ==
    IF width = 0
    THEN <<>>
    ELSE Append(Digits(n \div 10, width - 1), DigitChars[(n % 10) + 1])

MidnightSuffix ==
    <<"T", "0", "0", ":", "0", "0", ":", "0", "0", ".", "0", "0", "0", "Z">>

\* Date.prototype.toISOString, which is what JSON.stringify writes for a Date
toISOString(days) ==
    LET c == CivilFromDays(days)
    IN  Digits(c[1], 4) \o <<"-">> \o Digits(c[2], 2) \o <<"-">>
        \o Digits(c[3], 2) \o MidnightSuffix

(***************************************************************************)
(* The persistence client.  A document is the record                       *)
(* [id, amount, date, description] of JavaScript values.  Every call is    *)
(* one atomic operation on db; it gives back Value(v) or throws            *)
(* Throw(code), where code is the error's code property ("none" when the   *)
(* error carries no code, as a validation error of the client does).       *)
(***************************************************************************)
Value(v) == [k |-> "value", v |-> v]
Throw(code) == [k |-> "throw", code |-> code]
NoResult == [k |-> "none"]

\* The data the Transaction model takes on create: a string id, a number
\* that JSON can carry, a valid Date and a description.
\* a model whose amount and date take any value
AnyCreateDataAccepted(data) == data.id.t = "string"

CreateDataAccepted(data) ==
    /\ data.id.t = "string"
    /\ data.amount.t = "number"
    /\ data.date.t = "Date"
    /\ data.description.t = "string"

\* On update a field given as undefined is left out of the update.
UpdateDataAccepted(data) ==
    /\ data.amount.t = "number"
    /\ data.date.t = "Date"
    /\ data.description.t \in {"string", "undefined"}

Matching(d, id) == {doc \in d : doc.id = id}

SortKey(doc) == IF doc.date.t = "Date" THEN doc.date.time ELSE 0

IsDateDescending(list) ==
    \A i \in 1..(Len(list) - 1) : SortKey(list[i]) >= SortKey(list[i + 1])

\* every order of the documents of d
Orderings(d) ==
    {f \in [1..Cardinality(d) -> d] :
        \A i, j \in 1..Cardinality(d) : i # j => f[i] # f[j]}

\* findMany without orderBy
UnorderedFindMany(d) == {Value(list) : list \in Orderings(d)}

\* findMany({orderBy: {date: 'desc'}}): the documents, latest date first;
\* documents of one date come in any order.
PrismaFindMany(d) ==
    {Value(list) : list \in {l \in Orderings(d) : IsDateDescending(l)}}

\* findUnique({where: {id}}): the document, or null
PrismaFindUnique(d, id) ==
    IF Matching(d, id) = {}
    THEN Value(Null)
    ELSE Value(CHOOSE doc \in Matching(d, id) : TRUE)

\* an upsert in place of create
OverwritingCreate(d, data) ==
    IF ~CreateDataAccepted(data)
    THEN [db |-> d, result |-> Throw("none")]
    ELSE [db |-> (d \ Matching(d, data.id)) \cup {data}, result |-> Value(data)]

\* a create with no unique index on the id
DuplicatingCreate(d, data) ==
    IF ~CreateDataAccepted(data)
    THEN [db |-> d, result |-> Throw("none")]
    ELSE [db |-> d \cup {data}, result |-> Value(data)]

\* a create whose write is applied and whose answer is lost
WrittenThenLostCreate(d, data) ==
    IF ~CreateDataAccepted(data)
    THEN [db |-> d, result |-> Throw("none")]
    ELSE IF Matching(d, data.id) # {}
         THEN [db |-> d, result |-> Throw("P2002")]
         ELSE [db |-> d \cup {data}, result |-> Throw("P1001")]

\* create({data}): P2002 when the id is taken
PrismaCreate(d, data) ==
    IF ~CreateDataAccepted(data)
    THEN [db |-> d, result |-> Throw("none")]
    ELSE IF Matching(d, data.id) # {}
         THEN [db |-> d, result |-> Throw("P2002")]
         ELSE [db |-> d \cup {data}, result |-> Value(data)]

\* the document as update({where: {id}, data}) leaves it
Updated(doc, data) ==
    [id |-> doc.id,
     amount |-> data.amount,
     date |-> data.date,
     description |-> IF data.description.t = "undefined"
                     THEN doc.description
                     ELSE data.description]

\* an upsert in place of update
UpsertingUpdate(d, id, data) ==
    IF ~UpdateDataAccepted(data)
    THEN [db |-> d, result |-> Throw("none")]
    ELSE IF Matching(d, id) = {}
         THEN LET new == [id |-> id, amount |-> data.amount,
                          date |-> data.date, description |-> data.description]
              IN  [db |-> d \cup {new}, result |-> Value(new)]
         ELSE LET old == CHOOSE doc \in Matching(d, id) : TRUE
              IN  [db |-> (d \ {old}) \cup {Updated(old, data)},
                   result |-> Value(Updated(old, data))]

\* update({where: {id}, data}): P2025 when no document has the id
PrismaUpdate(d, id, data) ==
    IF ~UpdateDataAccepted(data)
    THEN [db |-> d, result |-> Throw("none")]
    ELSE IF Matching(d, id) = {}
         THEN [db |-> d, result |-> Throw("P2025")]
         ELSE LET old == CHOOSE doc \in Matching(d, id) : TRUE
              IN  [db |-> (d \ {old}) \cup {Updated(old, data)},
                   result |-> Value(Updated(old, data))]

\* a deleteMany that loses its where clause
DeleteAll(d, id) ==
    IF Matching(d, id) = {}
    THEN [db |-> d, result |-> Throw("P2025")]
    ELSE [db |-> {}, result |-> Value(CHOOSE doc \in Matching(d, id) : TRUE)]

\* delete({where: {id}}): P2025 when no document has the id
PrismaDelete(d, id) ==
    IF Matching(d, id) = {}
    THEN [db |-> d, result |-> Throw("P2025")]
    ELSE LET old == CHOOSE doc \in Matching(d, id) : TRUE
         IN  [db |-> d \ {old}, result |-> Value(old)]

\* what the pending call of a task does to d: the states and results it may
\* leave.  Any call may also fail because the database cannot be reached.
Outcomes(d, call) ==
    {[db |-> d, result |-> Throw("P1001")]}
    \cup
    CASE call.fn = "findMany" -> {[db |-> d, result |-> r] : r \in PrismaFindMany(d)}
      [] call.fn = "findUnique" -> {[db |-> d, result |-> PrismaFindUnique(d, call.id)]}
      [] call.fn = "create" -> {PrismaCreate(d, call.data)}
      [] call.fn = "update" -> {PrismaUpdate(d, call.id, call.data)}
      [] call.fn = "delete" -> {PrismaDelete(d, call.id)}

(***************************************************************************)
(* Requests and responses                                                  *)
(***************************************************************************)
NoBody == [id |-> Undefined, amount |-> Undefined, date |-> Undefined,
           description |-> Undefined]
NoCall == [fn |-> "none"]
NoReply == [k |-> "none"]

Idle ==
    [pc |-> "idle", op |-> "none", id |-> Undefined, body |-> NoBody,
     call |-> NoCall, result |-> NoResult, effects |-> <<>>,
     status |-> 0, reply |-> NoReply]

\* JSON.stringify of a document, as res.json sends it
Json(doc) ==
    [id |-> doc.id,
     amount |-> IF doc.amount.t = "number" THEN doc.amount ELSE Null,
     date |-> IF doc.date.t = "Date" THEN Str(toISOString(doc.date.time)) ELSE Null,
     description |-> doc.description]

ErrorReply(message) == [k |-> "error", error |-> message]

Free(s) == tasks[s].pc \in {"idle", "done"}

\* a handler that answers before any await
Answered(op, id, body, status, reply) ==
    [pc |-> "done", op |-> op, id |-> id, body |-> body, call |-> NoCall,
     result |-> NoResult, effects |-> <<"send">>, status |-> status,
     reply |-> reply]

\* a handler suspended at its await
Awaiting(op, id, body, call) ==
    [pc |-> "awaiting", op |-> op, id |-> id, body |-> body, call |-> call,
     result |-> NoResult, effects |-> <<"call">>, status |-> 0,
     reply |-> NoReply]

\* a catch block without its console.error
UnloggedFinished(task, logged, status, reply) ==
    [task EXCEPT !.pc = "done",
                 !.effects = @ \o <<"send">>,
                 !.status = status,
                 !.reply = reply]

\* a catch block that issues the failed call once more before it gives up
RetryingFinished(task, logged, status, reply) ==
    IF status = 500 /\ Len(task.effects) = 1
    THEN [task EXCEPT !.pc = "awaiting",
                      !.result = NoResult,
                      !.effects = @ \o <<"log", "call">>]
    ELSE [task EXCEPT !.pc = "done",
                      !.effects = @ \o (IF logged THEN <<"log", "send">> ELSE <<"send">>),
                      !.status = status,
                      !.reply = reply]

\* the rest of a handler: res.json or res.status(..).json, after
\* console.error when `logged`
Finished(task, logged, status, reply) ==
    [task EXCEPT !.pc = "done",
                 !.effects = @ \o (IF logged THEN <<"log", "send">> ELSE <<"send">>),
                 !.status = status,
                 !.reply = reply]

(***************************************************************************)
(* The route handlers.  Each runs to its await (XHandler), is suspended    *)
(* while the persistence client runs the call (Persist), and is resumed    *)
(* with the value or the error (XResume).                                  *)
(***************************************************************************)
\* GET /api/transactions
ListHandler(s) ==
    /\ Free(s)
    /\ tasks' = [tasks EXCEPT ![s] =
           Awaiting("list", Undefined, NoBody, [fn |-> "findMany"])]
    /\ UNCHANGED db

ListReply(result) == [k |-> "list", items |-> [i \in 1..Len(result.v) |-> Json(result.v[i])]]

ListResume(s) ==
    /\ tasks[s].pc = "resolved"
    /\ tasks[s].op = "list"
    /\ tasks' = [tasks EXCEPT ![s] =
           IF tasks[s].result.k = "value"
           THEN Finished(@, FALSE, 200, ListReply(tasks[s].result))
           ELSE Finished(@, TRUE, 500, ErrorReply("Failed to fetch transactions"))]
    /\ UNCHANGED db

\* GET /api/transactions/:id
GetHandler(s, id) ==
    /\ Free(s)
    /\ tasks' = [tasks EXCEPT ![s] =
           IF ~isValidObjectId(id)
           THEN Answered("get", id, NoBody, 400,
                         ErrorReply("Invalid transaction ID format"))
           ELSE Awaiting("get", id, NoBody, [fn |-> "findUnique", id |-> id])]
    /\ UNCHANGED db

\* a handler that sends nothing when findUnique gives null
GetResumeSilentOnNull(s) ==
    /\ tasks[s].pc = "resolved"
    /\ tasks[s].op = "get"
    /\ tasks' = [tasks EXCEPT ![s] =
           IF tasks[s].result.k = "value"
           THEN IF tasks[s].result.v = Null
                THEN @
                ELSE Finished(@, FALSE, 200, [k |-> "tx", tx |-> Json(tasks[s].result.v)])
           ELSE Finished(@, TRUE, 500, ErrorReply("Failed to fetch transaction"))]
    /\ UNCHANGED db

GetResume(s) ==
    /\ tasks[s].pc = "resolved"
    /\ tasks[s].op = "get"
    /\ tasks' = [tasks EXCEPT ![s] =
           IF tasks[s].result.k = "value"
           THEN IF tasks[s].result.v = Null
                THEN Finished(@, FALSE, 404, ErrorReply("Transaction not found"))
                ELSE Finished(@, FALSE, 200, [k |-> "tx", tx |-> Json(tasks[s].result.v)])
           ELSE Finished(@, TRUE, 500, ErrorReply("Failed to fetch transaction"))]
    /\ UNCHANGED db

\* the data object both writing handlers build from the body
Coerced(body) ==
    [amount |-> parseFloat(body.amount),
     date |-> NewDate(body.date),
     description |-> body.description]

\* POST /api/transactions
CreateHandler(s, body) ==
    /\ Free(s)
    /\ tasks' = [tasks EXCEPT ![s] =
           IF Falsy(body.id)
           THEN Answered("create", body.id, body, 400,
                         ErrorReply("Transaction ID is required"))
           ELSE IF ~isValidObjectId(body.id)
                THEN Answered("create", body.id, body, 400,
                              ErrorReply("Invalid transaction ID format"))
                ELSE Awaiting("create", body.id, body,
                              [fn |-> "create",
                               data |-> [id |-> body.id,
                                         amount |-> Coerced(body).amount,
                                         date |-> Coerced(body).date,
                                         description |-> Coerced(body).description]])]
    /\ UNCHANGED db

\* a catch block that takes a duplicate for a success
CreateResumeDuplicateCreated(s) ==
    /\ tasks[s].pc = "resolved"
    /\ tasks[s].op = "create"
    /\ tasks' = [tasks EXCEPT ![s] =
           IF tasks[s].result.k = "value"
           THEN Finished(@, FALSE, 201, [k |-> "tx", tx |-> Json(tasks[s].result.v)])
           ELSE IF tasks[s].result.code = "P2002"
                THEN Finished(@, TRUE, 201, [k |-> "tx", tx |-> Json(tasks[s].call.data)])
                ELSE Finished(@, TRUE, 500, ErrorReply("Failed to create transaction"))]
    /\ UNCHANGED db

CreateResume(s) ==
    /\ tasks[s].pc = "resolved"
    /\ tasks[s].op = "create"
    /\ tasks' = [tasks EXCEPT ![s] =
           IF tasks[s].result.k = "value"
           THEN Finished(@, FALSE, 201, [k |-> "tx", tx |-> Json(tasks[s].result.v)])
           ELSE IF tasks[s].result.code = "P2002"
                THEN Finished(@, TRUE, 409,
                              ErrorReply("A transaction with this ID already exists"))
                ELSE Finished(@, TRUE, 500, ErrorReply("Failed to create transaction"))]
    /\ UNCHANGED db

\* PUT /api/transactions/:id
UpdateHandler(s, id, body) ==
    /\ Free(s)
    /\ tasks' = [tasks EXCEPT ![s] =
           IF ~isValidObjectId(id)
           THEN Answered("update", id, body, 400,
                         ErrorReply("Invalid transaction ID format"))
           ELSE Awaiting("update", id, body,
                         [fn |-> "update", id |-> id, data |-> Coerced(body)])]
    /\ UNCHANGED db

\* a catch block that answers 404 to every error that carries a code
UpdateResumeAnyCodeNotFound(s) ==
    /\ tasks[s].pc = "resolved"
    /\ tasks[s].op = "update"
    /\ tasks' = [tasks EXCEPT ![s] =
           IF tasks[s].result.k = "value"
           THEN Finished(@, FALSE, 200, [k |-> "tx", tx |-> Json(tasks[s].result.v)])
           ELSE IF tasks[s].result.code # "none"
                THEN Finished(@, TRUE, 404, ErrorReply("Transaction not found"))
                ELSE Finished(@, TRUE, 500, ErrorReply("Failed to update transaction"))]
    /\ UNCHANGED db

UpdateResume(s) ==
    /\ tasks[s].pc = "resolved"
    /\ tasks[s].op = "update"
    /\ tasks' = [tasks EXCEPT ![s] =
           IF tasks[s].result.k = "value"
           THEN Finished(@, FALSE, 200, [k |-> "tx", tx |-> Json(tasks[s].result.v)])
           ELSE IF tasks[s].result.code = "P2025"
                THEN Finished(@, TRUE, 404, ErrorReply("Transaction not found"))
                ELSE Finished(@, TRUE, 500, ErrorReply("Failed to update transaction"))]
    /\ UNCHANGED db

\* DELETE /api/transactions/:id
DeleteHandler(s, id) ==
    /\ Free(s)
    /\ tasks' = [tasks EXCEPT ![s] =
           IF ~isValidObjectId(id)
           THEN Answered("delete", id, NoBody, 400,
                         ErrorReply("Invalid transaction ID format"))
           ELSE Awaiting("delete", id, NoBody, [fn |-> "delete", id |-> id])]
    /\ UNCHANGED db

\* a catch block that also answers 409, as that of Create does
DeleteResumeWithConflict(s) ==
    /\ tasks[s].pc = "resolved"
    /\ tasks[s].op = "delete"
    /\ tasks' = [tasks EXCEPT ![s] =
           IF tasks[s].result.k = "value"
           THEN Finished(@, FALSE, 200,
                         [k |-> "message", message |-> "Transaction deleted successfully"])
           ELSE IF tasks[s].result.code = "P2025"
                THEN Finished(@, TRUE, 404, ErrorReply("Transaction not found"))
                ELSE IF tasks[s].result.code = "P2002"
                     THEN Finished(@, TRUE, 409,
                                   ErrorReply("A transaction with this ID already exists"))
                     ELSE Finished(@, TRUE, 500,
                                   ErrorReply("Failed to delete transaction"))]
    /\ UNCHANGED db

DeleteResume(s) ==
    /\ tasks[s].pc = "resolved"
    /\ tasks[s].op = "delete"
    /\ tasks' = [tasks EXCEPT ![s] =
           IF tasks[s].result.k = "value"
           THEN Finished(@, FALSE, 200,
                         [k |-> "message", message |-> "Transaction deleted successfully"])
           ELSE IF tasks[s].result.code = "P2025"
                THEN Finished(@, TRUE, 404, ErrorReply("Transaction not found"))
                ELSE Finished(@, TRUE, 500, ErrorReply("Failed to delete transaction"))]
    /\ UNCHANGED db

\* the persistence client runs the call task s awaits
Persist(s) ==
    /\ tasks[s].pc = "awaiting"
    /\ \E o \in Outcomes(db, tasks[s].call) :
           /\ db' = o.db
           /\ tasks' = [tasks EXCEPT ![s].pc = "resolved", ![s].result = o.result]

\* the codes an error of the persistence client may carry: a unique
\* constraint failed, a record the operation needs was not found, the
\* database cannot be reached, no code at all
ErrorCodes == {"P2002", "P2025", "P1001", "none"}

\* the promise task s awaits is rejected with an error of the given code and
\* the call has written nothing; the catch block of the handler takes
\* whatever error it is given
Reject(s, code) ==
    /\ tasks[s].pc = "awaiting"
    /\ tasks' = [tasks EXCEPT ![s].pc = "resolved", ![s].result = Throw(code)]
    /\ UNCHANGED db

(***************************************************************************)
(* The requests of the model                                               *)
(***************************************************************************)
Repeat(c, n) == [i \in 1..n |-> c]

IdA == Str(Repeat("a", 24))
IdB == Str(<<"5", "0", "7", "f", "1", "f", "7", "7", "b", "c", "f", "8",
             "6", "c", "d", "7", "9", "9", "4", "3", "9", "0", "1", "1">>)
IdC == Str(Repeat("c", 24))
NotAnId == Str(<<"n", "o", "t", "-", "a", "n", "-", "i", "d">>)
NotHex24 == Str(Repeat("z", 24))
Hex12 == Str(Repeat("a", 12))

PathIds == {IdA, IdB, NotAnId, NotHex24, Hex12}

BodyIds == PathIds \cup {Undefined, Str(<<>>), Num(700)}

Jan01 == Str(<<"2", "0", "2", "3", "-", "0", "1", "-", "0", "1">>)
Jun01 == Str(<<"2", "0", "2", "3", "-", "0", "6", "-", "0", "1">>)
Mar01 == Str(<<"2", "0", "2", "3", "-", "0", "3", "-", "0", "1">>)
Soon == Str(<<"s", "o", "o", "n">>)

Rent == Str(<<"r", "e", "n", "t">>)
Food == Str(<<"f", "o", "o", "d">>)

Fields(amount, date, description) ==
    [amount |-> amount, date |-> date, description |-> description]

\* bodies whose amount and date are well formed
RentInJanuary == Fields(Str(<<"1", "2", ".", "5">>), Jan01, Rent)
FoodInJune == Fields(Num(700), Jun01, Food)

GoodFields ==
    {RentInJanuary, FoodInJune, Fields(Str(<<"-", "3">>), Mar01, Rent)}

\* bodies with a field that is malformed or left out
BadFields ==
    {Fields(Str(<<"7", "x">>), Jan01, Food),
     Fields(Str(<<"a", "b", "c">>), Jan01, Rent),
     Fields(Str(<<"1", "2", ".", "5">>), Soon, Food),
     Fields(Num(700), Jun01, Undefined),
     Fields(Undefined, Undefined, Undefined)}

Bodies(ids, fields) ==
    {[id |-> id, amount |-> f.amount, date |-> f.date,
      description |-> f.description] : id \in ids, f \in fields}

(***************************************************************************)
(* Spec: requests arrive one at a time, with every input of the model.     *)
(***************************************************************************)
Init ==
    /\ db = {}
    /\ tasks = [s \in Slots |-> Idle]

Next ==
    \E s \in {1} :
        \/ ListHandler(s)
        \/ \E id \in PathIds : GetHandler(s, id)
        \/ \E body \in Bodies(BodyIds, GoodFields \cup BadFields) : CreateHandler(s, body)
        \/ \E id \in PathIds, body \in Bodies({Undefined}, GoodFields \cup BadFields) :
              UpdateHandler(s, id, body)
        \/ \E id \in PathIds : DeleteHandler(s, id)
        \/ Persist(s)
        \/ ListResume(s)
        \/ GetResume(s)
        \/ CreateResume(s)
        \/ UpdateResume(s)
        \/ DeleteResume(s)

Spec == Init /\ [][Next]_vars

(***************************************************************************)
(* SpecList: three identifiers, so that three transactions of three dates  *)
(* are created, updated and listed in every order.                         *)
(***************************************************************************)
NextList ==
    \E s \in {1} :
        \/ ListHandler(s)
        \/ \E body \in Bodies({IdA, IdB, IdC}, GoodFields) : CreateHandler(s, body)
        \/ \E id \in {IdA, IdB, IdC}, body \in Bodies({Undefined}, GoodFields) :
              UpdateHandler(s, id, body)
        \/ Persist(s)
        \/ ListResume(s)
        \/ CreateResume(s)
        \/ UpdateResume(s)

SpecList == Init /\ [][NextList]_vars

(***************************************************************************)
(* SpecConcurrent: the requests that write, up to MaxInFlight of them in   *)
(* flight at once; their handlers and persistence calls interleave in      *)
(* every order.                                                            *)
(***************************************************************************)
NextConcurrent ==
    \E s \in Slots :
        \/ \E body \in Bodies({IdA}, {RentInJanuary, FoodInJune})
                       \cup Bodies({NotHex24, Num(700)}, {RentInJanuary}) :
              CreateHandler(s, body)
        \/ \E body \in Bodies({Undefined}, {FoodInJune}) : UpdateHandler(s, IdA, body)
        \/ DeleteHandler(s, IdA)
        \/ Persist(s)
        \/ CreateResume(s)
        \/ UpdateResume(s)
        \/ DeleteResume(s)

SpecConcurrent == Init /\ [][NextConcurrent]_vars

(***************************************************************************)
(* SpecSignals: requests arrive one at a time and the persistence client   *)
(* may reject any call with an error of any code.                          *)
(***************************************************************************)
SignalFields == {RentInJanuary, FoodInJune, Fields(Undefined, Undefined, Undefined)}

NextSignals ==
    \E s \in {1} :
        \/ ListHandler(s)
        \/ \E id \in {IdA, NotAnId} : GetHandler(s, id)
        \/ \E body \in Bodies({IdA, NotAnId, Undefined, Str(<<>>), Num(0), Num(700)},
                               SignalFields) :
              CreateHandler(s, body)
        \/ \E id \in {IdA, NotAnId}, body \in Bodies({Undefined}, SignalFields) :
              UpdateHandler(s, id, body)
        \/ \E id \in {IdA, NotAnId} : DeleteHandler(s, id)
        \/ Persist(s)
        \/ \E code \in ErrorCodes : Reject(s, code)
        \/ ListResume(s)
        \/ GetResume(s)
        \/ CreateResume(s)
        \/ UpdateResume(s)
        \/ DeleteResume(s)

SpecSignals == Init /\ [][NextSignals]_vars

(***************************************************************************)
(* SpecLive: Creates and Gets, up to MaxInFlight of them in flight at      *)
(* once.  The persistence client settles every call it is given, and the   *)
(* event loop runs the continuation of every settled await.                *)
(***************************************************************************)
NextLive ==
    \E s \in Slots :
        \/ \E body \in Bodies({IdA, Undefined}, {RentInJanuary}) : CreateHandler(s, body)
        \/ \E id \in {IdA, NotAnId} : GetHandler(s, id)
        \/ Persist(s)
        \/ CreateResume(s)
        \/ GetResume(s)

SpecLive ==
    /\ Init
    /\ [][NextLive]_vars
    /\ \A s \in Slots :
           /\ WF_vars(Persist(s))
           /\ WF_vars(CreateResume(s))
           /\ WF_vars(GetResume(s))

(***************************************************************************)
(* SpecCreateRace: every slot serves one request, a Create of the one id   *)
(* IdA, which is not stored at the start; the handlers and the persistence *)
(* calls of the Creates interleave in every order.                         *)
(***************************************************************************)
NextCreateRace ==
    \E s \in Slots :
        \/ /\ tasks[s].pc = "idle"
           /\ \E body \in Bodies({IdA}, {RentInJanuary, FoodInJune,
                                         Fields(Str(<<"a", "b", "c">>), Jan01, Rent)}) :
                  CreateHandler(s, body)
        \/ Persist(s)
        \/ CreateResume(s)

SpecCreateRace == Init /\ [][NextCreateRace]_vars

(***************************************************************************)
(* SpecUpdateDelete: the collection holds the transaction a Create of IdA  *)
(* has left there (the database outlives the requests that wrote it);      *)
(* every slot serves one request, an Update or a Delete of IdA, and their  *)
(* handlers and persistence calls interleave in every order.               *)
(***************************************************************************)
InitStored ==
    /\ db = PrismaCreate({}, [id |-> IdA,
                              amount |-> Coerced(RentInJanuary).amount,
                              date |-> Coerced(RentInJanuary).date,
                              description |-> Coerced(RentInJanuary).description]).db
    /\ tasks = [s \in Slots |-> Idle]

NextUpdateDelete ==
    \E s \in Slots :
        \/ /\ tasks[s].pc = "idle"
           /\ \E body \in Bodies({Undefined},
                                  {FoodInJune, Fields(Num(700), Soon, Food)}) :
                  UpdateHandler(s, IdA, body)
        \/ /\ tasks[s].pc = "idle"
           /\ DeleteHandler(s, IdA)
        \/ Persist(s)
        \/ UpdateResume(s)
        \/ DeleteResume(s)

SpecUpdateDelete == InitStored /\ [][NextUpdateDelete]_vars

(***************************************************************************)
(* What the specification calls things                                     *)
(***************************************************************************)
\* the identifier format: a string of 24 hexadecimal characters
HexadecimalCharacters ==
    {"0", "1", "2", "3", "4", "5", "6", "7", "8", "9",
     "a", "b", "c", "d", "e", "f", "A", "B", "C", "D", "E", "F"}

HasIdentifierFormat(id) ==
    /\ id.t = "string"
    /\ id.s \in [1..24 -> HexadecimalCharacters]

\* the persistence client could not be reached
Unreachable(result) == result = Throw("P1001")

\* task s is suspended in state 1 and resumed in state 2: this step is its
\* persistence call
Persists(s) == tasks[s].pc = "awaiting" /\ tasks'[s].pc = "resolved"

Has(effects, e) == \E i \in 1..Len(effects) : effects[i] = e

\* a decimal numeral: -?digits(.digits)?, with at most two fraction digits
IsDecimalText(s) ==
    LET first == IF Len(s) >= 1 /\ s[1] = "-" THEN 2 ELSE 1
        dots == {i \in first..Len(s) : s[i] = "."}
    IN  /\ first <= Len(s)
        /\ \A i \in first..Len(s) : IsDigit(s[i]) \/ s[i] = "."
        /\ Cardinality(dots) <= 1
        /\ \A i \in dots : first < i /\ i < Len(s) /\ Len(s) - i <= 2

RECURSIVE TenToThe(_)
TenToThe(n) == IF n = 0 THEN 1 ELSE 10 * TenToThe(n - 1)

RECURSIVE SumOver(_, _)
SumOver(f, S) ==
    IF S = {} THEN 0
    ELSE LET i == CHOOSE x \in S : TRUE IN f[i] + SumOver(f, S \ {i})

\* the number a decimal numeral denotes, in hundredths
DecimalValue(s) ==
    LET first == IF s[1] = "-" THEN 2 ELSE 1
        point == IF \E i \in 1..Len(s) : s[i] = "."
                 THEN CHOOSE i \in 1..Len(s) : s[i] = "."
                 ELSE Len(s) + 1
        places == (first..Len(s)) \ {point}
        weight == [i \in places |->
                      DigitVal(s[i])
                      * (IF i < point THEN 100 * TenToThe(point - 1 - i)
                         ELSE IF i = point + 1 THEN 10 ELSE 1)]
        magnitude == SumOver(weight, places)
    IN  IF first = 2 THEN 0 - magnitude ELSE magnitude

\* the amount, date and description of a body are valid inputs: a number
\* or a decimal numeral, a calendar date written YYYY-MM-DD (days 1..28,
\* which every month has), a text
IsValidAmount(v) ==
    \/ v.t = "number"
    \/ v.t = "string" /\ IsDecimalText(v.s)

IsValidDate(v) ==
    /\ v.t = "string"
    /\ IsIsoDateShape(v.s)
    /\ DigitsValue(v.s, 6, 8) \in 1..12
    /\ DigitsValue(v.s, 9, 11) \in 1..28

HasValidFields(body) ==
    /\ IsValidAmount(body.amount)
    /\ IsValidDate(body.date)
    /\ body.description.t = "string"

AmountOf(v) == IF v.t = "number" THEN v ELSE Num(DecimalValue(v.s))

\* the transaction of a response has the fields that were submitted
EqualsSubmitted(body, id, tx) ==
    /\ tx.id = id
    /\ tx.amount = AmountOf(body.amount)
    /\ tx.date = Str(body.date.s \o MidnightSuffix)
    /\ tx.description = body.description

(***************************************************************************)
(* C1.  Get, Update and Delete with a path id that does not have the       *)
(* identifier format answer 400 "Invalid transaction ID format" and issue  *)
(* no persistence call, whatever is stored.                                *)
(***************************************************************************)
C1_InvalidIdRejected ==
    \A s \in Slots :
        (/\ tasks[s].op \in {"get", "update", "delete"}
         /\ ~HasIdentifierFormat(tasks[s].id))
        => /\ tasks[s].pc = "done"
           /\ tasks[s].status = 400
           /\ tasks[s].reply = ErrorReply("Invalid transaction ID format")
           /\ tasks[s].call = NoCall
           /\ ~Has(tasks[s].effects, "call")

C1_Witness ==
    /\ db # {}
    /\ \E s \in Slots :
           /\ tasks[s].op = "delete"
           /\ tasks[s].id = NotHex24
           /\ tasks[s].status = 400

(***************************************************************************)
(* C2.  A Create of a well-formed transaction whose valid id is not stored *)
(* stores it and answers 201; a Create of a well-formed transaction whose  *)
(* id is stored answers 409 and leaves the collection as it was (the       *)
(* persistence client being reachable).                                    *)
(***************************************************************************)
C2_CreateStep ==
    \A s \in Slots :
        (/\ Persists(s)
         /\ tasks[s].op = "create"
         /\ HasIdentifierFormat(tasks[s].id)
         /\ HasValidFields(tasks[s].body)
         /\ ~Unreachable(tasks'[s].result))
        => IF Matching(db, tasks[s].id) = {}
           THEN /\ tasks'[s].result.k = "value"
                /\ Matching(db', tasks[s].id) = {tasks'[s].result.v}
                /\ db' \ Matching(db', tasks[s].id) = db
           ELSE /\ tasks'[s].result = Throw("P2002")
                /\ db' = db

C2_CreateStatus ==
    \A s \in Slots :
        (tasks[s].pc = "done" /\ tasks[s].op = "create" /\ tasks[s].call # NoCall)
        => /\ tasks[s].result.k = "value" => tasks[s].status = 201
           /\ tasks[s].result = Throw("P2002") => tasks[s].status = 409

C2_CreateTwice == [][C2_CreateStep]_vars /\ []C2_CreateStatus

\* a second Create was refused and what the first wrote is still stored
C2_Witness ==
    \E s \in Slots :
        /\ tasks[s].op = "create"
        /\ tasks[s].status = 409
        /\ HasValidFields(tasks[s].body)
        /\ \E doc \in Matching(db, tasks[s].id) :
               doc.amount # parseFloat(tasks[s].body.amount)

(***************************************************************************)
(* C3.  As claimed: Get, Update and Delete with a well-formed id that no   *)
(* stored transaction has when the persistence call runs get the not-found *)
(* signal (answered 404), and the collection is unchanged.                 *)
(***************************************************************************)
NotFoundSignal(op) == IF op = "get" THEN Value(Null) ELSE Throw("P2025")

C3_UnknownId(s) ==
    /\ Persists(s)
    /\ tasks[s].op \in {"get", "update", "delete"}
    /\ HasIdentifierFormat(tasks[s].id)
    /\ Matching(db, tasks[s].id) = {}
    /\ ~Unreachable(tasks'[s].result)

C3_NotFoundStatus ==
    \A s \in Slots :
        (/\ tasks[s].pc = "done"
         /\ tasks[s].op \in {"get", "update", "delete"}
         /\ tasks[s].result = NotFoundSignal(tasks[s].op))
        => tasks[s].status = 404

FieldsCoerce(body) ==
    /\ parseFloat(body.amount).t = "number"
    /\ NewDate(body.date).t = "Date"

C4_RoundTrip ==
    \A s \in Slots :
        /\ (/\ tasks[s].pc = "done"
            /\ tasks[s].op = "create"
            /\ tasks[s].status = 201
            /\ HasValidFields(tasks[s].body))
           => /\ EqualsSubmitted(tasks[s].body, tasks[s].id, tasks[s].reply.tx)
              /\ \E doc \in Matching(db, tasks[s].id) :
                     Json(doc) = tasks[s].reply.tx
        /\ (/\ tasks[s].pc = "done"
            /\ tasks[s].op = "get"
            /\ Matching(db, tasks[s].id) # {}
            /\ ~Unreachable(tasks[s].result))
           => /\ tasks[s].status = 200
              /\ \E doc \in Matching(db, tasks[s].id) :
                     tasks[s].reply = [k |-> "tx", tx |-> Json(doc)]

\* a Get answered with what a Create of "12.5", "2023-01-01", "rent" stored
C4_Witness ==
    \E s \in Slots :
        /\ tasks[s].op = "get"
        /\ tasks[s].status = 200
        /\ tasks[s].reply.tx =
               [id |-> IdA,
                amount |-> Num(1250),
                date |-> Str(Jan01.s \o MidnightSuffix),
                description |-> Rent]

(***************************************************************************)
(* C5.  A List that answers 200 returns every stored transaction exactly   *)
(* once, latest date first; List answers 200 unless the persistence client *)
(* cannot be reached.                                                      *)
(***************************************************************************)
C5_ListByDateDescending ==
    \A s \in Slots :
        (tasks[s].pc = "done" /\ tasks[s].op = "list")
        => /\ ~Unreachable(tasks[s].result) => tasks[s].status = 200
           /\ tasks[s].status = 200
              => \E f \in Orderings(db) :
                     /\ tasks[s].reply.items = [i \in 1..Cardinality(db) |-> Json(f[i])]
                     /\ \A i \in 1..(Cardinality(db) - 1) :
                            f[i].date.time >= f[i + 1].date.time

\* the listing 06-01, 03-01, 01-01
C5_Witness ==
    \E s \in Slots :
        /\ tasks[s].op = "list"
        /\ tasks[s].status = 200
        /\ Len(tasks[s].reply.items) = 3
        /\ tasks[s].reply.items[1].date = Str(Jun01.s \o MidnightSuffix)
        /\ tasks[s].reply.items[2].date = Str(Mar01.s \o MidnightSuffix)
        /\ tasks[s].reply.items[3].date = Str(Jan01.s \o MidnightSuffix)

(***************************************************************************)
(* C6.  As claimed: an Update that succeeds leaves, under the id of the    *)
(* request, exactly the transaction whose amount, date and description are *)
(* the values derived from the body, and leaves every other transaction    *)
(* as it was.                                                              *)
(***************************************************************************)
C6_UpdateReplacesAllFields ==
    [][\A s \in Slots :
           (/\ Persists(s)
            /\ tasks[s].op = "update"
            /\ tasks'[s].result.k = "value")
           => /\ Matching(db', tasks[s].id) =
                     {[id |-> tasks[s].id,
                       amount |-> parseFloat(tasks[s].body.amount),
                       date |-> NewDate(tasks[s].body.date),
                       description |-> tasks[s].body.description]}
              /\ db' \ Matching(db', tasks[s].id) = db \ Matching(db, tasks[s].id)]_vars

(***************************************************************************)
(* C7.  A Delete that succeeds removes the transaction of its id and no    *)
(* other; an id that is not stored stays so until a Create of it succeeds; *)
(* while it is not stored, a Get of it answers 404 and a List does not     *)
(* hold it.                                                                *)
(***************************************************************************)
C7_DeleteStep ==
    \A s \in Slots :
        (/\ Persists(s)
         /\ tasks[s].op = "delete"
         /\ tasks'[s].result.k = "value")
        => /\ Matching(db, tasks[s].id) # {}
           /\ db' = db \ Matching(db, tasks[s].id)

C7_AbsentUntilCreated ==
    \A doc \in db' :
        Matching(db, doc.id) = {}
        => \E s \in Slots :
               /\ Persists(s)
               /\ tasks[s].op = "create"
               /\ tasks[s].id = doc.id
               /\ tasks'[s].result.k = "value"

C7_GoneFromReads ==
    \A s \in Slots :
        tasks[s].pc = "done"
        => /\ (tasks[s].op = "delete" /\ tasks[s].status = 200)
              => Matching(db, tasks[s].id) = {}
           /\ (/\ tasks[s].op = "get"
               /\ HasIdentifierFormat(tasks[s].id)
               /\ Matching(db, tasks[s].id) = {}
               /\ ~Unreachable(tasks[s].result))
              => tasks[s].status = 404
           /\ (tasks[s].op = "list" /\ tasks[s].status = 200)
              => \A i \in 1..Len(tasks[s].reply.items) :
                     Matching(db, tasks[s].reply.items[i].id) # {}

C7_DeletedStaysDeleted ==
    /\ [][C7_DeleteStep /\ C7_AbsentUntilCreated]_vars
    /\ []C7_GoneFromReads

\* a Delete answered 200 while another transaction is still stored
C7_Witness ==
    /\ Matching(db, IdB) # {}
    /\ \E s \in Slots :
           /\ tasks[s].op = "delete"
           /\ tasks[s].id = IdA
           /\ tasks[s].status = 200

(***************************************************************************)
(* C8.  As claimed: every response 400, 404, 409 or 500 is preceded by a   *)
(* log event of its request.                                               *)
(***************************************************************************)
LoggedBeforeSent(effects) ==
    \E i, j \in 1..Len(effects) :
        i < j /\ effects[i] = "log" /\ effects[j] = "send"

IsErrorResponse(task) ==
    task.pc = "done" /\ task.status \in {400, 404, 409, 500}

C8_EveryFailureLogged ==
    \A s \in Slots :
        IsErrorResponse(tasks[s]) => LoggedBeforeSent(tasks[s].effects)

(***************************************************************************)
(* C8, amended.  The error responses that come from an error thrown by the *)
(* persistence call (409, the 404 of Update and Delete, every 500) are     *)
(* preceded by a log event; the validation failures (400) and the 404 of   *)
(* Get are sent without one.                                               *)
(***************************************************************************)
C8_ThrownFailuresLogged ==
    \A s \in Slots :
        IsErrorResponse(tasks[s])
        => (LoggedBeforeSent(tasks[s].effects)
            <=> \/ tasks[s].status \in {409, 500}
                \/ tasks[s].status = 404 /\ tasks[s].op \in {"update", "delete"})

C8_Witness ==
    \E s \in Slots :
        /\ tasks[s].op = "create"
        /\ tasks[s].status = 409
        /\ tasks[s].effects = <<"call", "log", "send">>

(***************************************************************************)
(* C9.  Every stored transaction has a finite amount and a valid date, and *)
(* no handler rejects a request for its amount or date: a Create or Update *)
(* with a valid id always reaches the persistence call.                    *)
(***************************************************************************)
C9_StoredFieldsValid ==
    /\ \A doc \in db : doc.amount.t = "number" /\ doc.date.t = "Date"
    /\ \A s \in Slots :
           (/\ tasks[s].op \in {"create", "update"}
            /\ HasIdentifierFormat(tasks[s].id))
           => /\ Has(tasks[s].effects, "call")
              /\ tasks[s].status # 400

\* a Create with an unparseable amount reached the persistence call and
\* stored nothing
C9_Witness ==
    /\ db # {}
    /\ \E s \in Slots :
           /\ tasks[s].op = "create"
           /\ tasks[s].id = IdB
           /\ parseFloat(tasks[s].body.amount) = NaN
           /\ tasks[s].result = Throw("none")
           /\ tasks[s].status = 500
           /\ Matching(db, IdB) = {}

(***************************************************************************)
(* C10.  Whatever requests interleave, no two stored transactions have the *)
(* same id, and the id of every stored transaction has the identifier      *)
(* format.                                                                 *)
(***************************************************************************)
C10_IdsUniqueAndWellFormed ==
    /\ \A d1, d2 \in db : d1.id = d2.id => d1 = d2
    /\ \A doc \in db : HasIdentifierFormat(doc.id)

\* two Creates of one id were in flight together: one is stored, the other
\* was refused
C10_Witness ==
    /\ db # {}
    /\ \E s1, s2 \in Slots :
           /\ s1 # s2
           /\ tasks[s1].op = "create"
           /\ tasks[s2].op = "create"
           /\ tasks[s1].id = tasks[s2].id
           /\ tasks[s1].body # tasks[s2].body
           /\ tasks[s1].pc = "resolved"
           /\ tasks[s2].pc = "resolved"
           /\ tasks[s1].result.k = "value"
           /\ tasks[s2].result = Throw("P2002")

(***************************************************************************)
(* C11.  Every response of an operation carries a status of its row of the *)
(* interface table (List 200, 500; Get 200, 400, 404, 500; Create 201,     *)
(* 400, 409, 500; Update and Delete 200, 400, 404, 500), whatever the      *)
(* input and whatever the persistence call gave: a value, null, or an      *)
(* error of any code.                                                      *)
(***************************************************************************)
StatusRow(op) ==
    CASE op = "list" -> {200, 500}
      [] op = "get" -> {200, 400, 404, 500}
      [] op = "create" -> {201, 400, 409, 500}
      [] op = "update" -> {200, 400, 404, 500}
      [] op = "delete" -> {200, 400, 404, 500}

C11_StatusInRow ==
    \A s \in Slots :
        Has(tasks[s].effects, "send") => tasks[s].status \in StatusRow(tasks[s].op)

\* a Delete whose call failed with the uniqueness signal was answered
C11_Witness ==
    \E s \in Slots :
        /\ tasks[s].op = "delete"
        /\ tasks[s].result = Throw("P2002")
        /\ Has(tasks[s].effects, "send")
        /\ tasks[s].status = 500

(***************************************************************************)
(* C12.  As claimed: a Create whose body has no id, or a falsy one, is     *)
(* answered 400 "Transaction ID is required"; one whose id is present but  *)
(* does not have the identifier format is answered 400 "Invalid            *)
(* transaction ID format"; neither issues a persistence call.              *)
(***************************************************************************)
RefusedUncalled(task, message) ==
    /\ task.pc = "done"
    /\ task.status = 400
    /\ task.reply = ErrorReply(message)
    /\ task.call = NoCall
    /\ ~Has(task.effects, "call")

C12_IdCheckedBeforePersistence ==
    \A s \in Slots :
        tasks[s].op = "create"
        => /\ Falsy(tasks[s].id)
              => RefusedUncalled(tasks[s], "Transaction ID is required")
           /\ (~Falsy(tasks[s].id) /\ ~HasIdentifierFormat(tasks[s].id))
              => RefusedUncalled(tasks[s], "Invalid transaction ID format")

(***************************************************************************)
(* C13.  An error of the persistence call is answered by its code and the  *)
(* operation: the not-found code gives 404 on Update and Delete only, the  *)
(* uniqueness code gives 409 on Create only, and every other error of any  *)
(* operation gives 500.                                                    *)
(***************************************************************************)
NotFoundCode == "P2025"

UniquenessCode == "P2002"

MappedStatus(op, code) ==
    IF op \in {"update", "delete"} /\ code = NotFoundCode
    THEN 404
    ELSE IF op = "create" /\ code = UniquenessCode
         THEN 409
         ELSE 500

C13_FailureMappedByCode ==
    \A s \in Slots :
        (Has(tasks[s].effects, "send") /\ tasks[s].result.k = "throw")
        => /\ tasks[s].status = MappedStatus(tasks[s].op, tasks[s].result.code)
           /\ tasks[s].reply.k = "error"

\* a Create whose call failed with the not-found code was answered 500
C13_Witness ==
    \E s \in Slots :
        /\ tasks[s].op = "create"
        /\ tasks[s].result = Throw(NotFoundCode)
        /\ tasks[s].pc = "done"
        /\ tasks[s].status = 500

(***************************************************************************)
(* C14.  No retries.  A request issues at most one persistence call: none  *)
(* when it is refused by validation (answered 400), exactly one otherwise; *)
(* a call that has returned or failed is not issued again, and the         *)
(* response follows it.                                                    *)
(***************************************************************************)
Occurrences(effects, e) == Cardinality({i \in 1..Len(effects) : effects[i] = e})

C14_CallCount ==
    \A s \in Slots :
        /\ Occurrences(tasks[s].effects, "call") <= 1
        /\ Has(tasks[s].effects, "send")
           => Occurrences(tasks[s].effects, "call")
                  = (IF tasks[s].status = 400 THEN 0 ELSE 1)

C14_SettledOnce ==
    \A s \in Slots :
        /\ Persists(s) => tasks[s].result = NoResult
        /\ tasks[s].pc = "resolved"
           => /\ tasks'[s].pc \in {"resolved", "done"}
              /\ tasks'[s].result = tasks[s].result
              /\ db' = db

C14_NoRetries == []C14_CallCount /\ [][C14_SettledOnce]_vars

\* an Update whose call could not reach the database was answered 500 after
\* that one call
C14_Witness ==
    \E s \in Slots :
        /\ tasks[s].op = "update"
        /\ tasks[s].result = Throw("P1001")
        /\ tasks[s].status = 500
        /\ tasks[s].effects = <<"call", "log", "send">>

(***************************************************************************)
(* C15.  Every request runs to completion: the persistence client          *)
(* settling every call, a request that was dispatched is answered, and it  *)
(* is answered once, whatever other requests are in flight.                *)
(***************************************************************************)
C15_AtMostOneResponse ==
    \A s \in Slots :
        /\ Occurrences(tasks[s].effects, "send") <= 1
        /\ tasks[s].pc = "done" <=> Has(tasks[s].effects, "send")

InFlight(s) == tasks[s].pc \in {"awaiting", "resolved"}

C15_RunsToCompletion ==
    /\ []C15_AtMostOneResponse
    /\ \A s \in Slots :
           InFlight(s) ~> (tasks[s].pc = "done"
                           /\ Occurrences(tasks[s].effects, "send") = 1)

\* a Get was answered 404 while a Create was still in flight
C15_Witness ==
    \E s1, s2 \in Slots :
        /\ tasks[s1].op = "get"
        /\ tasks[s1].pc = "done"
        /\ tasks[s1].status = 404
        /\ tasks[s1].effects = <<"call", "send">>
        /\ tasks[s2].op = "create"
        /\ InFlight(s2)

(***************************************************************************)
(* C16.  Of the Creates of one valid id that is not stored, in flight      *)
(* together, exactly one is answered 201 and every other 409, and what is  *)
(* stored under the id are the fields of the request answered 201 (the     *)
(* Creates being of well-formed fields and the persistence client          *)
(* reachable, as in C2).                                                   *)
(***************************************************************************)
\* the Creates of well-formed transactions whose persistence call has run
Racers ==
    {s \in Slots : /\ tasks[s].op = "create"
                   /\ tasks[s].pc \in {"resolved", "done"}
                   /\ HasIdentifierFormat(tasks[s].id)
                   /\ HasValidFields(tasks[s].body)
                   /\ ~Unreachable(tasks[s].result)}

Winners(id) == {s \in Racers : tasks[s].id = id /\ tasks[s].result.k = "value"}

C16_OneCreateWins ==
    \A s \in Racers :
        /\ \E w \in Winners(tasks[s].id) :
               /\ Winners(tasks[s].id) = {w}
               /\ \E doc \in db :
                      /\ Matching(db, tasks[s].id) = {doc}
                      /\ EqualsSubmitted(tasks[w].body, tasks[w].id, Json(doc))
        /\ s \notin Winners(tasks[s].id) => tasks[s].result = Throw("P2002")
        /\ tasks[s].pc = "done"
           => tasks[s].status = (IF s \in Winners(tasks[s].id) THEN 201 ELSE 409)

\* of two Creates of the id, the one of "food" was answered 201 and the one
\* of "rent" 409, and "food" is what is stored
C16_Witness ==
    \E s1, s2 \in Slots :
        /\ tasks[s1].pc = "done"
        /\ tasks[s2].pc = "done"
        /\ tasks[s1].body.description = Food
        /\ tasks[s2].body.description = Rent
        /\ tasks[s2].body.amount = RentInJanuary.amount
        /\ tasks[s1].status = 201
        /\ tasks[s2].status = 409
        /\ \A doc \in db : doc.description = Food

(***************************************************************************)
(* C17.  The collection changes only in the persistence call of a Create,  *)
(* Update or Delete that succeeds, and such a request is answered 201 or   *)
(* 200: List and Get change nothing, and a request answered 400, 404, 409  *)
(* or 500 has left every stored transaction as it was.                     *)
(***************************************************************************)
IsWrite(op) == op \in {"create", "update", "delete"}

C17_ChangedBySuccessfulWrite ==
    /\ db' # db => \E s \in Slots : Persists(s)
    /\ \A s \in Slots :
           (Persists(s) /\ db' # db)
           => /\ IsWrite(tasks[s].op)
              /\ tasks'[s].result.k = "value"

C17_SuccessfulWriteAnswered ==
    \A s \in Slots :
        (/\ tasks[s].pc = "done"
         /\ IsWrite(tasks[s].op)
         /\ tasks[s].result.k = "value")
        => tasks[s].status = (IF tasks[s].op = "create" THEN 201 ELSE 200)

C17_StoreFrame ==
    [][C17_ChangedBySuccessfulWrite]_vars /\ []C17_SuccessfulWriteAnswered

\* an Update of a stored transaction was refused and answered 500, and the
\* transaction is stored as the Create wrote it
C17_Witness ==
    \E s \in Slots :
        /\ tasks[s].op = "update"
        /\ tasks[s].status = 500
        /\ tasks[s].result = Throw("none")
        /\ \E doc \in Matching(db, tasks[s].id) : doc.description = Rent

(***************************************************************************)
(* C18.  An Update and a Delete of one stored id, in flight together: once *)
(* a Delete has succeeded no transaction of the id is stored, whatever the *)
(* Update does after it; the Update gets the updated transaction (200) if  *)
(* its persistence call runs before that of the Delete, and the not-found  *)
(* signal (404) if it runs after (its amount and date coercing and the     *)
(* persistence client being reachable).                                    *)
(***************************************************************************)
\* the persistence call of a Delete of the id has run and has succeeded
Deleted(id) ==
    \E d \in Slots :
        /\ tasks[d].op = "delete"
        /\ tasks[d].id = id
        /\ tasks[d].pc \in {"resolved", "done"}
        /\ tasks[d].result.k = "value"

C18_UpdateStep ==
    \A s \in Slots :
        (/\ Persists(s)
         /\ tasks[s].op = "update"
         /\ FieldsCoerce(tasks[s].body)
         /\ ~Unreachable(tasks'[s].result))
        => IF Deleted(tasks[s].id)
           THEN tasks'[s].result = Throw("P2025") /\ db' = db
           ELSE tasks'[s].result.k = "value"

C18_NotResurrected ==
    \A s \in Slots :
        /\ Deleted(tasks[s].id) => Matching(db, tasks[s].id) = {}
        /\ (tasks[s].pc = "done" /\ tasks[s].op \in {"update", "delete"})
           => /\ tasks[s].result.k = "value" <=> tasks[s].status = 200
              /\ tasks[s].result = Throw("P2025") <=> tasks[s].status = 404

C18_DeleteWinsOverUpdate == [][C18_UpdateStep]_vars /\ []C18_NotResurrected

\* both requests are in flight, neither yet answered: the call of the Delete
\* has succeeded, that of the Update found nothing, and nothing is stored
C18_Witness ==
    \E s1, s2 \in Slots :
        /\ tasks[s1].op = "delete"
        /\ tasks[s1].pc = "resolved"
        /\ tasks[s1].result.k = "value"
        /\ tasks[s2].op = "update"
        /\ tasks[s2].pc = "resolved"
        /\ tasks[s2].result = Throw("P2025")
        /\ db = {}

====
